---- MODULE Spec2Model ----
(***************************************************************************)
(* go_logger: leveled, file-based logging with daily rotation, one-shot    *)
(* configuration frozen by the first write, and lazily opened handles.     *)
(* The model follows src/logger.go (the current implementation, the second *)
(* package clause of the file, lines 156-623).                             *)
(*                                                                         *)
(* Time is counted in units of eight hours of UTC, so that the fixed       *)
(* UTC+8 zone is exactly one unit ahead of UTC and a day has three units.  *)
(* A path is a sequence of components; a log file is a record              *)
(* [dir, day, ext] standing for <dir>/<day>.<ext>.log.                      *)
(***************************************************************************)
EXTENDS Integers, Sequences, FiniteSets, TLC

\* ---------------------------------------------------------------- bounds
NThreads == 3
NCallers == 2
MaxCalls == 3
MaxClock == 2

\* ------------------------------------------------------ program constants
levelDebug == 0
levelInfo == 1
levelWarning == 2
levelError == 3
UnitsPerDay == 3
ShanghaiOffset == 1

Threads == 1..NThreads
Callers == 1..NCallers
Levels == {levelDebug, levelInfo, levelWarning, levelError}
NoThread == 0
NoFile == [dir |-> <<>>, day |-> -1, ext |-> "nil"]
NoLogger == [w |-> <<>>, f |-> NoFile]
NilSlice == -1
CopyArr == 0

\* inputs of the calls
DirArgs == { <<>>, <<"A">>, <<"B", "">>, <<"block", "subdir">> }
ZoneArgs == { "", "Asia/Shanghai", "UTC", "Invalid/Zone" }
KnownZones == { "UTC" }
WriterArgs == { <<>>, <<"w1">>, <<"w2", "w1">> }
MutateArgs == { "w3" }
WriteLevels == { levelInfo, levelError }
CloseLevels == { levelInfo }
PrintfLevels == { levelInfo }
PrintlnArgs == { <<"hello">> }
FatallnArgs == { <<"a", "b">> }
PrintfArgs == { [format |-> <<"x=", "%d">>, v |-> <<"1">>] }

VARIABLES
    clock,          \* time.Now(), in units of eight hours of UTC
    started,        \* started atomic.Bool
    configMu,       \* holder of configMu, or NoThread
    rotateMu,       \* holder of rotateMu, or NoThread
    mu,             \* per sink: holder of logger.mu, or NoThread
    once,           \* setTimezoneOnce / appendWriterOnce / setDirOnce: done?
    dirPathValue,   \* configured directory (sequence of components)
    locationValue,  \* configured zone
    writersValue,   \* the slice stored in writersValue: NilSlice or an array of heap
    heap,           \* backing arrays of the writer slices: CopyArr and one per caller
    dateStr,        \* day key of the last rotation
    dateFast,       \* lock-free snapshot of dateStr
    fileName,       \* per sink: logger.fileName
    file,           \* per sink: logger.file (the file the handle is on) or NoFile
    lg,             \* per sink: logger.logger ([w, f]) or NoLogger
    openH,          \* per sink: files on which the sink has an open OS handle
    out,            \* per sink: the lines emitted so far, in order
    disk,           \* the log files: file |-> the lines appended to it
    diag,           \* diagnostics written to the default error stream
    exited,         \* the process has terminated
    exitCode,
    exitBy,         \* thread whose call terminated the process
    calls,          \* number of calls issued so far
    writes,         \* per sink: number of write calls issued so far
    first,          \* per configuration function: the first call that got past
                    \* its unlocked checks and returned ([set, a, quiet])
    pc,             \* per thread: position in its current call
    op,             \* per thread: the current call [k, s, a, id]
    now,            \* per thread: the time taken by nowInLocation()
    rdir,           \* per thread: dirPath read by rotateLocked
    rforce,         \* per thread: rotate (TRUE) or rotateIfDateChanged (FALSE)
    ridx,           \* per thread: index of the sink rotateLocked is at
    rotatedFor,     \* per thread (history): while it waited for rotateMu, another
                    \* thread has rotated to the day it wants
    ret             \* per thread: outcome of the last call that returned

vars == << clock, started, configMu, rotateMu, mu, once, dirPathValue,
           locationValue, writersValue, heap, dateStr, dateFast, fileName,
           file, lg, openH, out, disk, diag, exited, exitCode, exitBy, calls,
           writes, first, pc, op, now, rdir, rforce, ridx, rotatedFor, ret >>

shared == << started, once, dirPathValue, locationValue, writersValue >>
sinks == << fileName, file, lg, openH, out, disk >>
locks == << configMu, rotateMu, mu >>
days == << dateStr, dateFast >>
term == << diag, exited, exitCode, exitBy >>
rot == << rdir, rforce, ridx, rotatedFor >>

\* ------------------------------------------------------- pure functions

\* filepath.Clean on the paths used here: empty and "." components vanish
RECURSIVE Clean(_)
Clean(p) ==
    IF p = <<>> THEN <<>>
    ELSE IF Head(p) \in {"", "."} THEN Clean(Tail(p))
    ELSE <<Head(p)>> \o Clean(Tail(p))

\* os.MkdirAll fails when a component of the path is an existing regular file
MkdirAllOK(p) == \A i \in 1..Len(p) : p[i] # "block"

\* the extension of a level's file
LevelExt(level) ==
    CASE level = levelDebug -> "debug"
      [] level = levelInfo -> "info"
      [] level = levelWarning -> "warning"
      [] level = levelError -> "error"

\* filepath.Join(dirPath, date + "." + ext + ".log")
LogFile(dir, day, level) == [dir |-> dir, day |-> day, ext |-> LevelExt(level)]

levelString(level) ==
    CASE level = levelDebug -> "DEBUG"
      [] level = levelInfo -> "INFO"
      [] level = levelWarning -> "WARNING"
      [] level = levelError -> "ERROR"
      [] OTHER -> "UNKNOWN"

\* now.Format("2006-01-02") of time.Now().In(loc)
DayKey(c, loc) ==
    IF loc = "Asia/Shanghai" THEN (c + ShanghaiOffset) \div UnitsPerDay
    ELSE c \div UnitsPerDay

nowInLocation == [c |-> clock, loc |-> locationValue]

Format(t) == DayKey(t.c, t.loc)

timePrefix(t) ==
    << "YYYY", "/", "MM", "/", "DD", " ", "HH", ":", "MM", ":", "SS", ".", "ffffff" >>

\* fmt.Sprintln: the operands separated by single spaces, then a newline
RECURSIVE JoinSp(_)
JoinSp(v) ==
    IF v = <<>> THEN <<>>
    ELSE IF Len(v) = 1 THEN Head(v)
    ELSE Head(v) \o <<" ">> \o JoinSp(Tail(v))

Sprintln(v) == JoinSp(v) \o <<"\n">>

\* fmt.Sprintf for the verbs used here: each "%d" takes the next operand
RECURSIVE Sprintf(_, _)
Sprintf(f, v) ==
    IF f = <<>> THEN <<>>
    ELSE IF Head(f) = "%d" /\ v # <<>> THEN <<Head(v)>> \o Sprintf(Tail(f), Tail(v))
    ELSE <<Head(f)>> \o Sprintf(Tail(f), v)

\* log.Logger.Output appends a newline when the text does not end in one
Output(s) == IF s # <<>> /\ s[Len(s)] = "\n" THEN s ELSE s \o <<"\n">>

Base == IF writersValue = NilSlice THEN <<>> ELSE heap[writersValue]

withFileWriter(f) == [w |-> Base, f |-> f]

LevelSeq == << levelDebug, levelInfo, levelWarning, levelError >>

Idle == [k |-> "none", s |-> levelDebug, a |-> <<>>]
NoTime == [c |-> 0, loc |-> ""]
ConfigKinds == { "SetDir", "SetTimezone", "AppendWriter" }
FatalKinds == { "Fatalln", "Fatalf" }
WriteKinds == { "Println", "Printf", "Fatalln", "Fatalf" }

\* -------------------------------------------------------------- initial
\* init(): default configuration, then rotate(now): names only, no handle
Init ==
    /\ clock = 1
    /\ started = FALSE
    /\ configMu = NoThread
    /\ rotateMu = NoThread
    /\ mu = [s \in Levels |-> NoThread]
    /\ once = [f \in ConfigKinds |-> FALSE]
    /\ dirPathValue = <<>>
    /\ locationValue = "Asia/Shanghai"
    /\ writersValue = NilSlice
    /\ heap = [a \in Threads \cup {CopyArr} |-> <<>>]
    /\ dateStr = DayKey(1, "Asia/Shanghai")
    /\ dateFast = DayKey(1, "Asia/Shanghai")
    /\ fileName = [s \in Levels |-> LogFile(<<>>, DayKey(1, "Asia/Shanghai"), s)]
    /\ file = [s \in Levels |-> NoFile]
    /\ lg = [s \in Levels |-> NoLogger]
    /\ openH = [s \in Levels |-> {}]
    /\ out = [s \in Levels |-> <<>>]
    /\ disk = << >>
    /\ diag = {}
    /\ exited = FALSE
    /\ exitCode = 0
    /\ exitBy = NoThread
    /\ calls = 0
    /\ writes = [s \in Levels |-> 0]
    /\ first = [f \in ConfigKinds |-> [set |-> FALSE, a |-> <<>>, quiet |-> FALSE]]
    /\ pc = [t \in Threads |-> "idle"]
    /\ op = [t \in Threads |-> Idle]
    /\ now = [t \in Threads |-> NoTime]
    /\ rdir = [t \in Threads |-> <<>>]
    /\ rforce = [t \in Threads |-> FALSE]
    /\ ridx = [t \in Threads |-> 0]
    /\ rotatedFor = [t \in Threads |-> FALSE]
    /\ ret = [t \in Threads |-> "none"]

\* ---------------------------------------------------------------- calls
CanCall(t) == pc[t] = "idle" /\ ~exited /\ calls < MaxCalls

\* a call begins: it goes to position p, or returns at once (outcome r) when p is "idle"
Begin(t, k, s, a, p, r) ==
    /\ calls' = calls + 1
    /\ pc' = [pc EXCEPT ![t] = p]
    /\ op' = [op EXCEPT ![t] = IF p = "idle" THEN Idle ELSE [k |-> k, s |-> s, a |-> a]]
    /\ ret' = [ret EXCEPT ![t] = IF p = "idle" THEN r ELSE "none"]

\* a call returns with outcome r: its locals are dead
Return(t, r) ==
    /\ pc' = [pc EXCEPT ![t] = "idle"]
    /\ op' = [op EXCEPT ![t] = Idle]
    /\ now' = [now EXCEPT ![t] = NoTime]
    /\ rforce' = [rforce EXCEPT ![t] = FALSE]
    /\ ret' = [ret EXCEPT ![t] = r]

\* path == "" of SetDir
emptyPath_Unchecked(path) == FALSE

emptyPath(path) == path = <<>>

\* SetDir, up to configMu.Lock(): empty argument and started are silent returns
CallSetDir(t, path) ==
    /\ CanCall(t)
    /\ Begin(t, "SetDir", levelDebug, path,
             IF emptyPath(path) \/ started THEN "idle" ELSE "cfg_lock", "ignored")
    /\ UNCHANGED << clock, shared, locks, heap, days, sinks, term, writes, first, now, rot >>

\* SetTimezone, up to configMu.Lock()
CallSetTimezone(t, name) ==
    /\ CanCall(t)
    /\ Begin(t, "SetTimezone", levelDebug, name,
             IF name = "" \/ started THEN "idle" ELSE "cfg_lock", "ignored")
    /\ UNCHANGED << clock, shared, locks, heap, days, sinks, term, writes, first, now, rot >>

\* AppendWriter, up to configMu.Lock(); the argument is the caller's array heap[t]
CallAppendWriter(t, ws) ==
    /\ CanCall(t)
    /\ Begin(t, "AppendWriter", levelDebug, ws,
             IF Len(ws) = 0 \/ started THEN "idle" ELSE "cfg_lock", "ignored")
    /\ heap' = [heap EXCEPT ![t] = ws]
    /\ UNCHANGED << clock, shared, locks, days, sinks, term, writes, first, now, rot >>

\* the caller overwrites an element of the array it passed to AppendWriter
MutateCallerSlice(t, i, w) ==
    /\ CanCall(t)
    /\ i \in 1..Len(heap[t])
    /\ heap[t][i] # w
    /\ Begin(t, "Mutate", levelDebug, <<>>, "idle", "mutated")
    /\ heap' = [heap EXCEPT ![t][i] = w]
    /\ UNCHANGED << clock, shared, locks, days, sinks, term, writes, first, now, rot >>

\* the first call of its function to return after passing the unlocked checks
Settle(t) ==
    first' = IF first[op[t].k].set THEN first
             ELSE [first EXCEPT ![op[t].k] = [set |-> TRUE, a |-> op[t].a, quiet |-> ~started]]

\* the part of a configuration call that returns with configMu released
CfgReturn(t, r) ==
    /\ Return(t, r)
    /\ Settle(t)
    /\ UNCHANGED configMu

\* the part of a configuration call that goes on into rotate(nowInLocation()...)
CfgRotate(t, loc) ==
    /\ configMu' = t
    /\ now' = [now EXCEPT ![t] = [c |-> clock, loc |-> loc]]
    /\ rforce' = [rforce EXCEPT ![t] = TRUE]
    /\ pc' = [pc EXCEPT ![t] = "rot_lock"]
    /\ UNCHANGED << op, ret, first >>

\* setDirOnce.Do: has the one-shot fired?
setDirOnce_Every == FALSE

setDirOnce == once["SetDir"]

\* err != nil of os.MkdirAll(cleaned, os.ModePerm)
mkdirFailed_Ignored(p) == FALSE

mkdirFailed(p) == ~MkdirAllOK(p)

\* setDirOnce after Do(f) has run f: done, whether or not f created the directory
setDirDone_OnSuccess(failed) == ~failed

setDirDone(failed) == TRUE

\* SetDir from configMu.Lock() on: re-check of started, setDirOnce.Do(...)
SetDir(t) ==
    /\ pc[t] = "cfg_lock" /\ op[t].k = "SetDir" /\ ~exited
    /\ configMu = NoThread
    /\ IF started \/ setDirOnce
       THEN /\ CfgReturn(t, IF started THEN "late" ELSE "once")
            /\ UNCHANGED << once, dirPathValue, diag >>
       ELSE /\ once' = [once EXCEPT !["SetDir"] = setDirDone(mkdirFailed(Clean(op[t].a)))]
            /\ IF mkdirFailed(Clean(op[t].a))
               THEN /\ diag' = diag \cup {"mkdir"}
                    /\ CfgReturn(t, "mkdirfail")
                    /\ UNCHANGED dirPathValue
               ELSE /\ dirPathValue' = Clean(op[t].a)
                    /\ CfgRotate(t, locationValue)
                    /\ UNCHANGED diag
    /\ UNCHANGED << clock, started, locationValue, writersValue, heap, rotateMu, mu,
                    days, sinks, exited, exitCode, exitBy, calls, writes, rdir, ridx, rotatedFor >>

\* err != nil of time.LoadLocation(name), for a name other than "Asia/Shanghai"
zoneUnknown_Accepted(name) == FALSE

zoneUnknown(name) == name # "Asia/Shanghai" /\ name \notin KnownZones

\* SetTimezone from configMu.Lock() on: re-check of started, setTimezoneOnce.Do(...)
SetTimezone(t) ==
    /\ pc[t] = "cfg_lock" /\ op[t].k = "SetTimezone" /\ ~exited
    /\ configMu = NoThread
    /\ IF started \/ once["SetTimezone"]
       THEN /\ CfgReturn(t, IF started THEN "late" ELSE "once")
            /\ UNCHANGED << once, locationValue, term >>
       ELSE /\ once' = [once EXCEPT !["SetTimezone"] = TRUE]
            /\ IF zoneUnknown(op[t].a)
               THEN \* log.Fatalln: diagnostic, then os.Exit(1)
                    /\ diag' = diag \cup {"tz"}
                    /\ exited' = TRUE
                    /\ exitCode' = 1
                    /\ exitBy' = t
                    /\ configMu' = t
                    /\ UNCHANGED << locationValue, pc, op, now, rforce, ret, first >>
               ELSE /\ locationValue' = op[t].a
                    /\ CfgRotate(t, op[t].a)
                    /\ UNCHANGED term
    /\ UNCHANGED << clock, started, dirPathValue, writersValue, heap, rotateMu, mu,
                    days, sinks, calls, writes, rdir, ridx, rotatedFor >>

\* the slice AppendWriter stores: cp, a fresh array holding a copy of the argument
storedSlice_Alias(t) == t

storedSlice(t) == CopyArr

\* AppendWriter from configMu.Lock() on: re-check, appendWriterOnce.Do(copy, Store)
AppendWriter(t) ==
    /\ pc[t] = "cfg_lock" /\ op[t].k = "AppendWriter" /\ ~exited
    /\ configMu = NoThread
    /\ IF started \/ once["AppendWriter"]
       THEN /\ CfgReturn(t, IF started THEN "late" ELSE "once")
            /\ UNCHANGED << once, writersValue, heap >>
       ELSE /\ once' = [once EXCEPT !["AppendWriter"] = TRUE]
            /\ heap' = [heap EXCEPT ![CopyArr] = heap[t]]
            /\ writersValue' = storedSlice(t)
            /\ CfgReturn(t, "applied")
    /\ UNCHANGED << clock, started, dirPathValue, locationValue, rotateMu, mu,
                    days, sinks, term, calls, writes, rdir, ridx, rotatedFor >>

\* ------------------------------------------------------------- rotation
\* dirPath := dirPathValue.Load().(string) of rotateLocked
rotDir_Unset == <<>>

rotDir == dirPathValue

\* rotateLocked, first part: dateStr, dateFast, dirPath; the four names follow
rotateLocked(t) ==
    /\ rotateMu' = t
    /\ dateStr' = Format(now[t])
    /\ dateFast' = Format(now[t])
    /\ rdir' = [rdir EXCEPT ![t] = rotDir]
    /\ ridx' = [ridx EXCEPT ![t] = 1]
    /\ rotatedFor' = [u \in Threads |->
                        /\ u # t
                        /\ \/ rotatedFor[u]
                           \/ pc[u] = "rot_lock" /\ ~rforce[u] /\ Format(now[u]) = Format(now[t])]
    /\ pc' = [pc EXCEPT ![t] = "rot_sink"]

\* rotate: rotateMu.Lock(), unconditional rotateLocked
rotate(t) ==
    /\ pc[t] = "rot_lock" /\ rforce[t] /\ ~exited
    /\ rotateMu = NoThread
    /\ rotateLocked(t)
    /\ UNCHANGED << clock, shared, configMu, mu, heap, sinks, term, calls, writes,
                    first, op, now, rforce, ret >>

\* rotateIfDateChanged: rotateMu.Lock(), rotateLocked only if dateStr differs
rotateIfDateChanged(t) ==
    /\ pc[t] = "rot_lock" /\ ~rforce[t] /\ ~exited
    /\ rotateMu = NoThread
    /\ IF dateStr # Format(now[t])
       THEN rotateLocked(t)
       ELSE /\ pc' = [pc EXCEPT ![t] = "w_mu"]
            /\ rotatedFor' = [rotatedFor EXCEPT ![t] = FALSE]
            /\ UNCHANGED << rotateMu, days, rdir, ridx >>
    /\ UNCHANGED << clock, shared, configMu, mu, heap, sinks, term, calls, writes,
                    first, op, now, rforce, ret >>

\* createLogger: rotate(nowInLocation().Format("2006-01-02")), up to rotateMu.Lock()
CallCreateLogger(t) ==
    /\ CanCall(t)
    /\ Begin(t, "createLogger", levelDebug, <<>>, "rot_lock", "none")
    /\ now' = [now EXCEPT ![t] = nowInLocation]
    /\ rforce' = [rforce EXCEPT ![t] = TRUE]
    /\ UNCHANGED << clock, shared, locks, heap, days, sinks, term, writes, first,
                    rdir, ridx, rotatedFor >>

\* l.fileName == fileName of setFileName
sameName_Never(s, fn) == FALSE

sameName(s, fn) == fileName[s] = fn

\* l.file != nil of setFileName
hasFile_Ignored(s) == FALSE

hasFile(s) == file[s] # NoFile

\* setFileName under l.mu: a changed name closes and drops the open handle
setFileNameBody(s, fn) ==
    IF sameName(s, fn)
    THEN UNCHANGED << fileName, file, lg, openH >>
    ELSE /\ fileName' = [fileName EXCEPT ![s] = fn]
         /\ IF hasFile(s)
            THEN /\ openH' = [openH EXCEPT ![s] = @ \ {file[s]}]
                 /\ file' = [file EXCEPT ![s] = NoFile]
                 /\ lg' = [lg EXCEPT ![s] = NoLogger]
            ELSE UNCHANGED << file, lg, openH >>

\* setFileName on the next sink, l.mu.Lock(): waits until the sink's lock is free
setFileNameLock(t) ==
    /\ pc[t] = "rot_sink" /\ ~exited
    /\ mu[LevelSeq[ridx[t]]] = NoThread
    /\ mu' = [mu EXCEPT ![LevelSeq[ridx[t]]] = t]
    /\ pc' = [pc EXCEPT ![t] = "rot_name"]
    /\ UNCHANGED << clock, shared, configMu, rotateMu, heap, days, sinks, term, calls,
                    writes, first, op, now, rot, ret >>

\* setFileName on that sink, under l.mu: the body and the deferred l.mu.Unlock();
\* after the fourth sink rotateMu, and the configuration call's deferred
\* configMu, are unlocked
setFileName(t) ==
    /\ pc[t] = "rot_name" /\ ~exited
    /\ setFileNameBody(LevelSeq[ridx[t]], LogFile(rdir[t], dateStr, LevelSeq[ridx[t]]))
    /\ mu' = [mu EXCEPT ![LevelSeq[ridx[t]]] = NoThread]
    /\ IF ridx[t] < Len(LevelSeq)
       THEN /\ ridx' = [ridx EXCEPT ![t] = @ + 1]
            /\ pc' = [pc EXCEPT ![t] = "rot_sink"]
            /\ UNCHANGED << rotateMu, configMu, op, now, rdir, rforce, ret, first >>
       ELSE /\ ridx' = [ridx EXCEPT ![t] = 0]
            /\ rdir' = [rdir EXCEPT ![t] = <<>>]
            /\ rotateMu' = NoThread
            /\ IF op[t].k \in ConfigKinds
               THEN /\ configMu' = NoThread
                    /\ Return(t, "applied")
                    /\ Settle(t)
               ELSE IF op[t].k = "createLogger"
               THEN /\ Return(t, "rotated")
                    /\ UNCHANGED << configMu, first >>
               ELSE /\ pc' = [pc EXCEPT ![t] = "w_mu"]
                    /\ UNCHANGED << configMu, op, now, rforce, ret, first >>
    /\ UNCHANGED << clock, shared, heap, days, out, disk, term, calls, writes,
                    rotatedFor >>

\* --------------------------------------------------------------- writes
\* Println / Printf / Fatalln / Fatalf, up to freezeConfig's started.Load()
CallWrite(t, k, s, a) ==
    /\ CanCall(t)
    /\ Begin(t, k, s, a, IF started THEN "w_now" ELSE "w_freeze", "none")
    /\ writes' = [writes EXCEPT ![s] = @ + 1]
    /\ UNCHANGED << clock, shared, locks, heap, days, sinks, term, first, now, rot >>

\* configMu.Lock() of freezeConfig: waits until no configuration call holds it
freezeLock_Missing(t) == TRUE

freezeLock(t) == configMu = NoThread

\* configMu.Unlock() of freezeConfig: the holder of configMu after it
freezeUnlock_Missing(t) == t

freezeUnlock(t) == NoThread

\* freezeConfig: configMu.Lock(); started.Store(true); configMu.Unlock()
freezeConfig(t) ==
    /\ pc[t] = "w_freeze" /\ ~exited
    /\ freezeLock(t)
    /\ started' = TRUE
    /\ configMu' = freezeUnlock(t)
    /\ pc' = [pc EXCEPT ![t] = "w_now"]
    /\ UNCHANGED << clock, once, dirPathValue, locationValue, writersValue, rotateMu, mu,
                    heap, days, sinks, term, calls, writes, first, op, now, rot, ret >>

\* now := nowInLocation()
TakeNow(t) ==
    /\ pc[t] = "w_now" /\ ~exited
    /\ now' = [now EXCEPT ![t] = nowInLocation]
    /\ pc' = [pc EXCEPT ![t] = "w_fast"]
    /\ UNCHANGED << clock, shared, locks, heap, days, sinks, term, calls, writes,
                    first, op, rot, ret >>

\* rotateIfNeeded: the lock-free comparison with dateFast
rotateIfNeeded(t) ==
    /\ pc[t] = "w_fast" /\ ~exited
    /\ pc' = [pc EXCEPT ![t] = IF dateFast = Format(now[t]) THEN "w_mu" ELSE "rot_lock"]
    /\ UNCHANGED << clock, shared, locks, heap, days, sinks, term, calls, writes,
                    first, op, now, rot, ret >>

\* l.mu.Lock() of Println / Printf: waits until the sink's lock is free
sinkLock_Missing(t) == TRUE

sinkLock(t) == mu[op[t].s] = NoThread

\* Println / Printf up to l.mu.Lock()
WriteLock(t) ==
    /\ pc[t] = "w_mu" /\ ~exited
    /\ sinkLock(t)
    /\ mu' = [mu EXCEPT ![op[t].s] = t]
    /\ pc' = [pc EXCEPT ![t] = "w_emit"]
    /\ UNCHANGED << clock, shared, configMu, rotateMu, heap, days, sinks, term,
                    calls, writes, first, op, now, rot, ret >>

\* os.OpenFile(name, O_CREATE|O_WRONLY|O_APPEND): creates a missing file, keeps
\* the content of an existing one
OpenFile(d, fn) == IF fn \in DOMAIN d THEN d ELSE d @@ (fn :> <<>>)

\* ensureLoggerLocked: the logger, the handle, the open files and the disk after it
EnsuredLogger(s) == IF lg[s] # NoLogger THEN lg[s] ELSE withFileWriter(fileName[s])
EnsuredFile(s) == IF lg[s] # NoLogger THEN file[s] ELSE fileName[s]
EnsuredOpen(s) == IF lg[s] # NoLogger THEN openH[s] ELSE openH[s] \cup {fileName[s]}
EnsuredDisk(s) == IF lg[s] # NoLogger THEN disk ELSE OpenFile(disk, fileName[s])

\* the text of the line
LineText(t) ==
    LET head == << timePrefix(now[t]), <<levelString(op[t].s)>> >> IN
    IF op[t].k \in {"Println", "Fatalln"}
    THEN Sprintln(head \o [i \in 1..Len(op[t].a) |-> <<op[t].a[i]>>])
    ELSE Output(timePrefix(now[t]) \o <<" ">> \o <<levelString(op[t].s)>> \o <<" ">>
                \o Sprintf(op[t].a.format, op[t].a.v))

\* the line as it reaches the MultiWriter l: the extra writers, then the file
\* (the write to the file fails when its handle is closed); day is the day of
\* the line's own time, at the day on which it is emitted
Line(t, l, open, opened) ==
    [t |-> t, k |-> op[t].k, day |-> Format(now[t]), at |-> Format(nowInLocation),
     text |-> LineText(t), to |-> l.w, file |-> l.f, landed |-> l.f \in open,
     opened |-> opened]

\* the file's content after the line went through the MultiWriter
Written(d, ln) ==
    IF ln.landed THEN [d EXCEPT ![ln.file] = Append(@, [t |-> ln.t, text |-> ln.text])]
    ELSE d

\* defer l.mu.Unlock() of Println / Printf: the holder of l.mu after the write
sinkUnlock_Missing(t) == t

sinkUnlock(t) == NoThread

\* Println / Printf under l.mu: ensureLoggerLocked, format, emit, unlock
Emit(t) ==
    /\ pc[t] = "w_emit" /\ ~exited
    /\ LET s == op[t].s
           ln == Line(t, EnsuredLogger(s), EnsuredOpen(s), lg[s] = NoLogger)
       IN
         /\ lg' = [lg EXCEPT ![s] = EnsuredLogger(s)]
         /\ file' = [file EXCEPT ![s] = EnsuredFile(s)]
         /\ openH' = [openH EXCEPT ![s] = EnsuredOpen(s)]
         /\ out' = [out EXCEPT ![s] = Append(@, ln)]
         /\ disk' = Written(EnsuredDisk(s), ln)
         /\ mu' = [mu EXCEPT ![s] = sinkUnlock(t)]
    /\ IF op[t].k \in FatalKinds
       THEN /\ pc' = [pc EXCEPT ![t] = "w_exit"]
            /\ UNCHANGED << op, now, rforce, ret >>
       ELSE Return(t, "written")
    /\ UNCHANGED << clock, shared, configMu, rotateMu, heap, days, fileName, term,
                    calls, writes, first, rdir, ridx, rotatedFor >>

\* a Fatalln / Fatalf that returns to its caller instead of exiting
Fatal_Returns(t) ==
    /\ pc[t] = "w_exit" /\ ~exited
    /\ Return(t, "written")
    /\ UNCHANGED << clock, shared, locks, heap, days, sinks, term, calls, writes,
                    first, rdir, ridx, rotatedFor >>

\* Fatalln / Fatalf after the write: os.Exit(1)
Fatal(t) ==
    /\ pc[t] = "w_exit" /\ ~exited
    /\ exited' = TRUE
    /\ exitCode' = 1
    /\ exitBy' = t
    /\ UNCHANGED << clock, shared, locks, heap, days, sinks, diag, calls, writes,
                    first, pc, op, now, rot, ret >>

\* l.logger = nil of Close
closedLogger_Kept(l) == l

closedLogger(l) == NoLogger

\* Close, up to l.mu.Lock()
CallClose(t, s) ==
    /\ CanCall(t)
    /\ Begin(t, "Close", s, <<>>, "cl_lock", "none")
    /\ UNCHANGED << clock, shared, locks, heap, days, sinks, term, writes, first, now, rot >>

\* Close under l.mu: close and drop the open handle; returns the close error
Close(t, err) ==
    /\ pc[t] = "cl_lock" /\ ~exited
    /\ mu[op[t].s] = NoThread
    /\ IF file[op[t].s] = NoFile
       THEN /\ Return(t, "nil")
            /\ UNCHANGED << file, lg, openH >>
       ELSE /\ Return(t, err)
            /\ openH' = [openH EXCEPT ![op[t].s] = @ \ {file[op[t].s]}]
            /\ file' = [file EXCEPT ![op[t].s] = NoFile]
            /\ lg' = [lg EXCEPT ![op[t].s] = closedLogger(lg[op[t].s])]
    /\ UNCHANGED << clock, shared, locks, heap, days, fileName, out, disk, term,
                    calls, writes, first, rdir, ridx, rotatedFor >>

\* time passes
Tick ==
    /\ ~exited
    /\ clock < MaxClock
    /\ clock' = clock + 1
    /\ UNCHANGED << shared, locks, heap, days, sinks, term, calls, writes, first,
                    pc, op, now, rot, ret >>

Next ==
    \/ Tick
    \/ \E t \in Callers :
         \/ \E path \in DirArgs : CallSetDir(t, path)
         \/ \E name \in ZoneArgs : CallSetTimezone(t, name)
         \/ \E ws \in WriterArgs : CallAppendWriter(t, ws)
         \/ \E w \in MutateArgs : MutateCallerSlice(t, 1, w)
         \/ SetDir(t)
         \/ SetTimezone(t)
         \/ AppendWriter(t)
         \/ rotate(t)
         \/ rotateIfDateChanged(t)
         \/ setFileNameLock(t)
         \/ setFileName(t)
         \/ \E s \in WriteLevels, a \in PrintlnArgs : CallWrite(t, "Println", s, a)
         \/ \E s \in PrintfLevels, a \in PrintfArgs : CallWrite(t, "Printf", s, a)
         \/ \E a \in FatallnArgs : CallWrite(t, "Fatalln", levelError, a)
         \/ \E a \in PrintfArgs : CallWrite(t, "Fatalf", levelError, a)
         \/ freezeConfig(t)
         \/ TakeNow(t)
         \/ rotateIfNeeded(t)
         \/ WriteLock(t)
         \/ Emit(t)
         \/ Fatal(t)
         \/ \E s \in CloseLevels : CallClose(t, s)
         \/ \E err \in {"closed", "err"} : Close(t, err)

Spec == Init /\ [][Next]_vars

\* the writers alone: every thread writes lines to the Info sink while time passes
NextWriters ==
    \/ Tick
    \/ \E t \in Threads :
         \/ \E a \in PrintlnArgs : CallWrite(t, "Println", levelInfo, a)
         \/ freezeConfig(t)
         \/ TakeNow(t)
         \/ rotateIfNeeded(t)
         \/ rotateIfDateChanged(t)
         \/ setFileNameLock(t)
         \/ setFileName(t)
         \/ WriteLock(t)
         \/ Emit(t)

SpecWriters == Init /\ [][NextWriters]_vars

\* the rotation on its own: forced rotations (createLogger) among the writers
NextRotation ==
    \/ NextWriters
    \/ \E t \in Threads : CallCreateLogger(t) \/ rotate(t)

SpecRotation == Init /\ [][NextRotation]_vars

\* =============================================================== claims
ConfigOf == << dirPathValue, locationValue, writersValue, Base >>

\* a thread inside the body of a configuration call (it holds configMu)
InConfigBody(t) == pc[t] \in {"rot_lock", "rot_sink", "rot_name"} /\ op[t].k \in ConfigKinds

\* C1: once started is set by the first write's freezeConfig, no step changes
\* the directory, the zone or the extra writers, and no configuration call is
\* still inside its body (a call racing with the first write either finished
\* its change, rotation included, before the freeze or changes nothing)
C1_FrozenConfig ==
    [][ /\ started => ConfigOf' = ConfigOf
        /\ started' => \A t \in Threads : ~InConfigBody(t)' ]_vars

\* a configuration call that passed its unlocked check raced with the first
\* write and returned without effect at the re-check under configMu
C1_Witness == started /\ \E t \in Threads : ret[t] = "late"

\* C2: for each configuration function, once a call that got past the unlocked
\* checks has returned, the value is for ever either the default or that first
\* call's argument (never a later call's), it is that argument when the call
\* returned before any write froze the configuration (and the directory could
\* be created), and every line goes to that directory and those writers
C2_FirstCallWins ==
    /\ first["SetDir"].set =>
         /\ dirPathValue \in { <<>>, Clean(first["SetDir"].a) }
         /\ (first["SetDir"].quiet /\ MkdirAllOK(Clean(first["SetDir"].a)))
              => dirPathValue = Clean(first["SetDir"].a)
         /\ \A s \in Levels : \A i \in 1..Len(out[s]) : out[s][i].file.dir = dirPathValue
    /\ first["AppendWriter"].set =>
         /\ Base \in { <<>>, first["AppendWriter"].a }
         /\ first["AppendWriter"].quiet => Base = first["AppendWriter"].a
         /\ \A s \in Levels : \A i \in 1..Len(out[s]) : out[s][i].to = Base
    /\ first["SetTimezone"].set =>
         /\ locationValue \in { "Asia/Shanghai", first["SetTimezone"].a }
         /\ first["SetTimezone"].quiet => locationValue = first["SetTimezone"].a

\* SetDir(A) took effect, a later SetDir was ignored by the one-shot, and a line
\* landed in a file under A
C2_Witness ==
    /\ first["SetDir"].set /\ first["SetDir"].quiet
    /\ \E t \in Threads : ret[t] = "once"
    /\ \E s \in Levels : \E i \in 1..Len(out[s]) :
         out[s][i].landed /\ out[s][i].file.dir = Clean(first["SetDir"].a)
                          /\ out[s][i].file.dir # <<>>

\* a write call of thread t on sink s that has not emitted its line yet
Writing(t, s) ==
    /\ pc[t] \in {"w_freeze", "w_now", "w_fast", "rot_lock", "rot_sink", "rot_name",
                "w_mu", "w_emit"}
    /\ op[t].k \in WriteKinds
    /\ op[t].s = s

\* the lines of sink s that went to file f, as the file holds them
LinesIn(s, f) ==
    LET sel == SelectSeq(out[s], LAMBDA ln : ln.landed /\ ln.file = f)
    IN [i \in 1..Len(sel) |-> [t |-> sel[i].t, text |-> sel[i].text]]

\* exactly one newline, at the end
OneLine(text) ==
    /\ text # <<>>
    /\ \A i \in 1..Len(text) : (text[i] = "\n") <=> (i = Len(text))

\* lines i and j of sink s come from two successive writes of one thread, the
\* first emitted (and returned) on a day before the day of the second's time
DayCrossed(s, i, j) ==
    /\ i < j
    /\ out[s][i].t = out[s][j].t
    /\ \A k \in (i + 1)..(j - 1) : out[s][k].t # out[s][i].t
    /\ out[s][i].at < out[s][j].day

\* C3 (as claimed): when the day changes from D to D' between two successive
\* writes of a thread to a sink, the second line is in the file named with D',
\* the sink holds no handle on a file of D any more, and no later line goes to
\* a file of D
C3_RotationAtDayChange ==
    \A s \in Levels : \A i, j \in 1..Len(out[s]) :
        DayCrossed(s, i, j) =>
            /\ out[s][j].file.day = out[s][j].day
            /\ \A f \in openH[s] : f.day # out[s][i].at
            /\ \A k \in 1..Len(out[s]) : k > j => out[s][k].file.day # out[s][i].at

\* C4: the open-format-emit step of the writes to one sink never overlaps;
\* every write issued to a sink has either not emitted yet or has exactly one
\* line in the sink's output, so that with all writes returned the sink holds
\* exactly as many lines as writes were issued; every line is one complete
\* newline-terminated line that reached its file, and each file holds the
\* lines sent to it, in order
C4_SerializedWrites ==
    \A s \in Levels :
        /\ Cardinality({t \in Threads : pc[t] = "w_emit" /\ op[t].s = s}) <= 1
        /\ Len(out[s]) + Cardinality({t \in Threads : Writing(t, s)}) = writes[s]
        /\ \A i \in 1..Len(out[s]) :
             /\ OneLine(out[s][i].text)
             /\ out[s][i].landed
             /\ out[s][i].file \in DOMAIN disk
             /\ disk[out[s][i].file] = LinesIn(s, out[s][i].file)

\* two threads have written three lines to the Info sink and all calls returned
C4_Witness ==
    /\ \A t \in Threads : pc[t] = "idle"
    /\ Len(out[levelInfo]) = 3
    /\ writes[levelInfo] = 3
    /\ \E i, j \in 1..3 : out[levelInfo][i].t # out[levelInfo][j].t

\* the layout the line format prescribes for Println(v...) on sink s
PrintlnLayout(s, v) ==
    << "YYYY", "-", "MM", "-", "DD", " ", "HH", ":", "MM", ":", "SS", ".", "ffffff",
       " ", levelString(s), " " >> \o JoinSp([i \in 1..Len(v) |-> <<v[i]>>]) \o << "\n" >>

\* C5 (as claimed): every line emitted by Println is date with '-', space,
\* time with microseconds, space, level label, space, the operands joined by
\* single spaces, one newline
C5_PrintlnLayout ==
    \A s \in Levels : \A i \in 1..Len(out[s]) :
        out[s][i].k = "Println" => \E v \in PrintlnArgs : out[s][i].text = PrintlnLayout(s, v)

\* the fallback after a failed directory creation: the directory is unset and
\* every line reached a file <day>.<level>.log of the working directory, the
\* level being the sink's (which day key the file carries is C3's matter)
FallenBack ==
    /\ dirPathValue = <<>>
    /\ \A s \in Levels : fileName[s].dir = <<>>
    /\ \A s \in Levels : \A i \in 1..Len(out[s]) :
         /\ out[s][i].landed
         /\ out[s][i].file = LogFile(<<>>, out[s][i].file.day, s)
         /\ out[s][i].file \in DOMAIN disk

\* C6: the SetDir step of a call whose directory cannot be created changes
\* neither the directory nor any sink's file path, does not terminate the
\* process and returns; once that failure happened the directory stays unset
\* and every line lands in a file of the working directory
C6_MkdirFallback ==
    [][ /\ \A t \in Threads :
             ( /\ pc[t] = "cfg_lock" /\ op[t].k = "SetDir" /\ pc'[t] # pc[t]
               /\ ~MkdirAllOK(Clean(op[t].a)) )
             => /\ dirPathValue' = dirPathValue
                /\ fileName' = fileName
                /\ ~exited'
                /\ pc'[t] = "idle"
        /\ ("mkdir" \in diag') => FallenBack' ]_vars

\* the creation failed and a later write landed in the working directory
C6_Witness ==
    /\ "mkdir" \in diag
    /\ ~exited
    /\ \E s \in Levels : \E i \in 1..Len(out[s]) :
         out[s][i].landed /\ out[s][i].file.dir = <<>>

\* a zone name that is neither the built-in one nor resolvable
InvalidZone(name) == name \notin ({"", "Asia/Shanghai"} \cup KnownZones)

\* C7: the step in which the SetTimezone one-shot fires for a thread whose
\* name is invalid (the thread that moves in it, or that terminates the
\* process in it) terminates the process with a non-zero status and a
\* diagnostic, and changes neither the zone nor the file paths nor the day
\* key, and starts no rotation
C7_InvalidZoneExits ==
    [][ \A t \in Threads :
          ( /\ pc[t] = "cfg_lock" /\ op[t].k = "SetTimezone" /\ InvalidZone(op[t].a)
            /\ once'["SetTimezone"] # once["SetTimezone"]
            /\ \/ pc'[t] # pc[t]
               \/ (pc' = pc /\ exited' /\ exitBy' = t) )
          => /\ exited' /\ exitCode' # 0 /\ exitBy' = t
             /\ "tz" \in diag'
             /\ locationValue' = locationValue
             /\ fileName' = fileName
             /\ dateStr' = dateStr /\ dateFast' = dateFast
             /\ rotateMu' = rotateMu
             /\ pc' = pc ]_vars

\* the process was terminated by SetTimezone with status 1 and a diagnostic
C7_Witness ==
    /\ exited /\ exitCode = 1 /\ "tz" \in diag
    /\ pc[exitBy] = "cfg_lock" /\ op[exitBy].k = "SetTimezone" /\ InvalidZone(op[exitBy].a)

\* a sink's handle and fan-out writer are set and cleared together
HandleAndLogger ==
    \A s \in Levels : (lg[s] = NoLogger) <=> (file[s] = NoFile)

\* C8: Close on an open handle closes it, clears handle and fan-out writer and
\* returns the close result without terminating the process; Close without a
\* handle returns nil and changes nothing; and a write that finds no logger
\* opens the sink's current file, keeps what the file held, and appends its line
C8_CloseAndReopen ==
    [][ /\ \A t \in Threads :
             (pc[t] = "cl_lock" /\ pc'[t] = "idle") =>
                /\ ~exited'
                /\ IF file[op[t].s] # NoFile
                   THEN /\ file'[op[t].s] = NoFile
                        /\ lg'[op[t].s] = NoLogger
                        /\ file[op[t].s] \notin openH'[op[t].s]
                        /\ ret'[t] \in {"closed", "err"}
                   ELSE /\ ret'[t] = "nil"
                        /\ sinks' = sinks
        /\ \A t \in Threads :
             (pc[t] = "w_emit" /\ pc'[t] # "w_emit" /\ lg[op[t].s] = NoLogger) =>
                LET s == op[t].s
                    f == fileName[s]
                    ln == out'[s][Len(out'[s])]
                IN /\ file'[s] = f
                   /\ f \in openH'[s]
                   /\ ln.t = t /\ ln.landed /\ ln.file = f
                   /\ disk'[f] = Append(IF f \in DOMAIN disk THEN disk[f] ELSE <<>>,
                                        [t |-> t, text |-> ln.text])
        /\ HandleAndLogger' ]_vars

\* a Close returned an error, and on the same day a second line reopened the
\* file of the first and was appended after it
C8_Witness ==
    /\ clock = 1
    /\ \E t \in Threads : ret[t] = "err"
    /\ Len(out[levelInfo]) = 2
    /\ out[levelInfo][2].opened
    /\ out[levelInfo][2].file = out[levelInfo][1].file
    /\ Len(disk[out[levelInfo][1].file]) = 2

\* the line of thread t's fatal call is in the Error sink's output and file
FatalLineWritten(t) ==
    \E i \in 1..Len(out[levelError]) :
        /\ out[levelError][i].t = t
        /\ out[levelError][i].k = op[t].k
        /\ out[levelError][i].landed
        /\ \E j \in 1..Len(disk[out[levelError][i].file]) :
             disk[out[levelError][i].file][j] = [t |-> t, text |-> out[levelError][i].text]

\* C9: a Fatalln / Fatalf call never returns to its caller; when its thread
\* stands before os.Exit the configuration is frozen and its line is written
\* to the Error sink; and the process it terminates exits with status 1 only
\* from there
C9_FatalWritesThenExits ==
    [][ \A t \in Threads :
          /\ op[t].k \in FatalKinds => pc'[t] # "idle"
          /\ pc'[t] = "w_exit" => (op'[t].s = levelError /\ started' /\ FatalLineWritten(t)')
          /\ (op[t].k \in FatalKinds /\ exitBy' = t /\ ~exited /\ exited')
               => (pc[t] = "w_exit" /\ exitCode' = 1) ]_vars

\* a Fatalf call has terminated the process after its line was written
C9_Witness ==
    /\ exited /\ exitCode = 1
    /\ exitBy \in Threads
    /\ op[exitBy].k = "Fatalf"
    /\ FatalLineWritten(exitBy)

\* C10: once AppendWriter has stored writers, the extra writers are the
\* elements its argument had when the call was made, whatever the caller does
\* to its array later, and every line is sent to exactly those, in that order
C10_SnapshotCopy ==
    writersValue # NilSlice =>
        /\ Base = first["AppendWriter"].a
        /\ \A s \in Levels : \A i \in 1..Len(out[s]) : out[s][i].to = first["AppendWriter"].a

\* the only AppendWriter call took effect, its caller then overwrote an element
\* of its array, and a later line went to the writers as they were at the call
C10_Witness ==
    /\ calls = 3
    /\ writersValue # NilSlice
    /\ \E t \in Threads : ret[t] = "mutated" /\ heap[t] # Base
    /\ \E s \in Levels : \E i \in 1..Len(out[s]) :
         out[s][i].to = first["AppendWriter"].a /\ out[s][i].to # <<>>

\* the step of thread t that runs the locked part of a SetDir call
SetDirStep(t) == pc[t] = "cfg_lock" /\ op[t].k = "SetDir" /\ pc'[t] # pc[t]

\* C11 (as claimed): a SetDir whose directory creation fails leaves the
\* one-shot unused, and a SetDir with a creatable path that runs before any
\* write, after only failed ones, sets the directory to its path
C11_FailureKeepsOneShot ==
    [][ \A t \in Threads :
          /\ (SetDirStep(t) /\ ~started /\ ~once["SetDir"] /\ ~MkdirAllOK(Clean(op[t].a)))
               => ~once'["SetDir"]
          /\ (SetDirStep(t) /\ ~started /\ "mkdir" \in diag /\ MkdirAllOK(Clean(op[t].a)))
               => dirPathValue' = Clean(op[t].a) ]_vars

\* C11 (amended): a SetDir whose directory creation fails does not take effect
\* but uses up the one-shot: every later SetDir, also one with a creatable
\* path made before any write, returns at once and changes neither the
\* directory nor a file path, and the directory stays unset
C11_FailureUsesOneShot ==
    [][ /\ \A t \in Threads :
             /\ (SetDirStep(t) /\ ~started /\ ~once["SetDir"] /\ ~MkdirAllOK(Clean(op[t].a)))
                  => (once'["SetDir"] /\ dirPathValue' = dirPathValue)
             /\ (SetDirStep(t) /\ "mkdir" \in diag)
                  => /\ pc'[t] = "idle" /\ ret'[t] \in {"once", "late"}
                     /\ dirPathValue' = dirPathValue /\ sinks' = sinks /\ days' = days
        /\ ("mkdir" \in diag') => (once'["SetDir"] /\ dirPathValue' = <<>>) ]_vars

\* after a failed SetDir, before any write, a SetDir with a creatable path has
\* passed its unlocked checks and is about to be ignored by the one-shot
C11_Witness ==
    /\ ~started /\ "mkdir" \in diag /\ configMu = NoThread
    /\ \E t, u \in Threads :
         /\ ret[u] = "mkdirfail"
         /\ pc[t] = "cfg_lock" /\ op[t].k = "SetDir"
         /\ op[t].a # <<>> /\ MkdirAllOK(Clean(op[t].a))

\* everything but the bookkeeping of the calls and the callers' own arrays
ProgramState == << shared, locks, days, sinks, term, clock >>

\* C12: a configuration call with an empty argument never gets past its first
\* check (no thread is in the locked part of a configuration call with an
\* empty argument); a call that returns at once (the step that issues it
\* leaves every thread where it was) changes no program state, the one-shots
\* included; and while a function's one-shot is unused and no
\* write has begun, a call of it with a usable argument takes effect
C12_EmptyArgumentNoOp ==
    [][ /\ \A t \in Threads :
             (pc'[t] \in {"cfg_lock", "rot_lock", "rot_sink", "rot_name"}
                /\ op'[t].k \in ConfigKinds)
                => op'[t].a # (IF op'[t].k = "SetTimezone" THEN "" ELSE <<>>)
        /\ (calls' # calls /\ pc' = pc) => ProgramState' = ProgramState
        /\ \A t \in Threads :
             (pc[t] = "cfg_lock" /\ pc'[t] # pc[t] /\ ~started /\ ~once[op[t].k]) =>
                CASE op[t].k = "SetDir" ->
                       MkdirAllOK(Clean(op[t].a)) => dirPathValue' = Clean(op[t].a)
                  [] op[t].k = "SetTimezone" -> locationValue' = op[t].a
                  [] op[t].k = "AppendWriter" -> Base' = op[t].a ]_vars

\* before any write one call was ignored for its empty argument and the other
\* call, a SetDir with a path, took effect
C12_Witness ==
    /\ ~started /\ calls = 2
    /\ \E t, u \in Threads :
         /\ t # u
         /\ ret[t] = "ignored"
         /\ ret[u] = "applied" /\ dirPathValue # <<>>

\* C13 (as claimed): of the writers that wait for rotateMu wanting the same
\* new day, the first to take the lock rotates; each other one, for which the
\* rotation to its day was done while it waited, finds the key updated in its
\* re-check and neither rotates nor changes a path nor closes a handle
C13_RotatesOnce ==
    [][ \A t \in Threads :
          (pc[t] = "rot_lock" /\ ~rforce[t] /\ rotatedFor[t] /\ pc'[t] # pc[t])
             => /\ pc'[t] = "w_mu"
                /\ days' = days
                /\ sinks' = sinks ]_vars

\* no configuration call holds configMu and no rotation holds rotateMu
Settled == configMu = NoThread /\ rotateMu = NoThread

\* C14: whenever no configuration call and no rotation is in progress, every
\* sink's path is <directory>/<day key>.<level>.log for the configured
\* directory, the stored day key and the sink's own level
C14_PathsDerived ==
    Settled => \A s \in Levels : fileName[s] = LogFile(dirPathValue, dateStr, s)

\* a SetDir has just returned with effect: all four paths are under its
\* directory, with the day key the paths had before
C14_Witness ==
    /\ Settled /\ ~started
    /\ dirPathValue # <<>>
    /\ \E t \in Threads : ret[t] = "applied"
    /\ dateStr = DayKey(1, "Asia/Shanghai")
    /\ \A s \in Levels : fileName[s].dir = dirPathValue /\ fileName[s].ext = LevelExt(s)

\* the step of thread t that runs the rotation check's comparison or re-check
\* with a time of the stored day
SameDayCheck(t) ==
    /\ pc[t] \in {"w_fast", "rot_lock"} /\ ~rforce[t]
    /\ pc'[t] # pc[t]
    /\ Format(now[t]) = dateStr

\* the step of thread t that runs setFileName, within a forced rotation, on a
\* sink whose path is already the one computed from the day and the directory
SameNameStep(t) ==
    /\ pc[t] = "rot_name" /\ rforce[t]
    /\ pc'[t] # pc[t]
    /\ LogFile(rdir[t], dateStr, LevelSeq[ridx[t]]) = fileName[LevelSeq[ridx[t]]]

\* C15: a rotation check with a time of the stored day goes on to the write
\* and changes neither the day key nor a path nor a handle; a write that finds
\* the sink's logger in place opens nothing; and a forced rotation to the
\* stored day keeps the day key, and on every sink whose path it computes as
\* it is, keeps path and open handle
C15_SameDayIdempotent ==
    [][ \A t \in Threads :
          /\ SameDayCheck(t) => (pc'[t] = "w_mu" /\ days' = days /\ sinks' = sinks)
          /\ (pc[t] = "w_emit" /\ pc'[t] # pc[t] /\ lg[op[t].s] # NoLogger)
               => << fileName, file, lg, openH >>' = << fileName, file, lg, openH >>
          /\ (pc[t] = "rot_lock" /\ rforce[t] /\ pc'[t] # pc[t] /\ Format(now[t]) = dateStr)
               => (days' = days /\ sinks' = sinks)
          /\ SameNameStep(t) => sinks' = sinks ]_vars

\* a forced rotation to the stored day and directory is about to run
\* setFileName on the Info sink, which holds an open handle on its file
C15_Witness ==
    \E t \in Threads :
        /\ pc[t] = "rot_name" /\ rforce[t] /\ LevelSeq[ridx[t]] = levelInfo
        /\ Format(now[t]) = dateStr
        /\ file[levelInfo] # NoFile /\ file[levelInfo] \in openH[levelInfo]
        /\ LogFile(rdir[t], dateStr, levelInfo) = fileName[levelInfo]
        /\ Len(out[levelInfo]) >= 1

\* a step of thread t inside a call it has begun
Progress(t) ==
    \/ SetDir(t) \/ SetTimezone(t) \/ AppendWriter(t)
    \/ rotate(t) \/ rotateIfDateChanged(t) \/ setFileNameLock(t) \/ setFileName(t)
    \/ freezeConfig(t) \/ TakeNow(t) \/ rotateIfNeeded(t) \/ WriteLock(t) \/ Emit(t)
    \/ Fatal(t) \/ Close(t, "closed")

\* the sinks' locks thread t holds
SinkLocksOf(t) == { s \in Levels : mu[s] = t }

\* C16: while the process runs and some call is unfinished, some thread can
\* take a step of its call (no deadlock); a thread that holds a sink's lock
\* holds that one sink's lock only and is in the locked part of its write or
\* of setFileName, where it waits for no lock; it holds rotateMu only when it
\* took it before the sink's lock (in setFileName); a thread waiting for
\* configMu holds no lock, one waiting for rotateMu holds no sink's lock and
\* at most configMu; rotateMu is held only inside a rotation, configMu only
\* by a configuration call inside its rotation
C16_LockOrder ==
    /\ (~exited /\ \E t \in Threads : pc[t] # "idle") => ENABLED (\E t \in Threads : Progress(t))
    /\ ~exited => \A t \in Threads :
         /\ Cardinality(SinkLocksOf(t)) <= 1
         /\ SinkLocksOf(t) # {} =>
              \/ pc[t] = "w_emit" /\ SinkLocksOf(t) = {op[t].s} /\ configMu # t /\ rotateMu # t
              \/ pc[t] = "rot_name" /\ SinkLocksOf(t) = {LevelSeq[ridx[t]]} /\ rotateMu = t
         /\ pc[t] \in {"cfg_lock", "w_freeze"} =>
              (configMu # t /\ rotateMu # t /\ SinkLocksOf(t) = {})
         /\ pc[t] = "rot_lock" => (rotateMu # t /\ SinkLocksOf(t) = {})
         /\ rotateMu = t => pc[t] \in {"rot_sink", "rot_name"}
         /\ configMu = t => InConfigBody(t)
         /\ InConfigBody(t) => configMu = t

\* a writer holds the Info sink's lock while a rotation, holding rotateMu, waits
\* for that lock in setFileName, and another call is still unfinished
C16_Witness ==
    \E t, u \in Threads :
        /\ pc[t] = "w_emit" /\ op[t].s = levelInfo /\ mu[levelInfo] = t
        /\ pc[u] = "rot_sink" /\ rotateMu = u /\ LevelSeq[ridx[u]] = levelInfo
        /\ ~ENABLED setFileNameLock(u)

\* C17 (as claimed): no thread holds configMu and a sink's lock at once
C17_NeverConfigAndSink ==
    \A t \in Threads : configMu = t => SinkLocksOf(t) = {}

\* C17 (amended): a thread holds configMu and a sink's lock at once only in
\* setFileName within the forced rotation of a SetDir or SetTimezone call,
\* before any write, having taken configMu, then rotateMu, then the one
\* sink's lock; no write, freezeConfig, AppendWriter or Close holds both
C17_ConfigAndSinkOnlyInRotation ==
    ~exited => \A t \in Threads :
        (configMu = t /\ SinkLocksOf(t) # {}) =>
            /\ op[t].k \in {"SetDir", "SetTimezone"}
            /\ pc[t] = "rot_name"
            /\ rotateMu = t
            /\ SinkLocksOf(t) = {LevelSeq[ridx[t]]}
            /\ ~started

\* a SetDir call, holding configMu and rotateMu, holds the Info sink's lock in
\* setFileName
C17_Witness ==
    \E t \in Threads :
        /\ op[t].k = "SetDir" /\ pc[t] = "rot_name"
        /\ configMu = t /\ rotateMu = t /\ mu[levelInfo] = t

\* C18: a sink holds at most one open handle, and if it holds one, the handle
\* is on the sink's current path and is the one its logger writes through;
\* and every write goes through a handle on the path the sink has when the
\* line is emitted
C18_HandleOnCurrentPath ==
    [][ /\ \A s \in Levels :
             /\ Cardinality(openH'[s]) <= 1
             /\ openH'[s] = (IF file'[s] = NoFile THEN {} ELSE {file'[s]})
             /\ file'[s] # NoFile => (file'[s] = fileName'[s] /\ lg'[s].f = file'[s])
        /\ \A t \in Threads :
             (pc[t] = "w_emit" /\ pc'[t] # pc[t]) =>
                LET ln == out'[op[t].s][Len(out'[op[t].s])]
                IN ln.file = fileName[op[t].s] /\ ln.file = fileName'[op[t].s] /\ ln.landed
      ]_vars

\* the Info sink wrote a line to one day's file, was rotated, and now holds its
\* one handle on the later day's file, through which the second line went
C18_Witness ==
    /\ Len(out[levelInfo]) = 2
    /\ out[levelInfo][1].file.day < out[levelInfo][2].file.day
    /\ out[levelInfo][1].landed /\ out[levelInfo][2].landed
    /\ fileName[levelInfo] = out[levelInfo][2].file
    /\ openH[levelInfo] = {fileName[levelInfo]}

\* C19 (as claimed): every emitted line is in the file whose name carries the
\* day of the line's own time
C19_LineInFileOfItsDay ==
    \A s \in Levels : \A i \in 1..Len(out[s]) :
        out[s][i].landed /\ out[s][i].file.day = out[s][i].day

\* C20 (as claimed): once the configuration is frozen no step moves the stored
\* day key, or its lock-free snapshot, backward
C20_DayKeyMonotone ==
    [][ started => (dateStr' >= dateStr /\ dateFast' >= dateFast) ]_vars

====
